---- MODULE Spec2Model ----
(***************************************************************************)
(* A model of crc32.py: the CRC-32 of a file's contents (crc32), the       *)
(* --insert argument parser (hex_string_32bit) and the command dispatcher  *)
(* (do_main) that either prints the checksum or overwrites 4 bytes of the  *)
(* file at an offset counted from its start or from its end.               *)
(*                                                                         *)
(* Python integers wider than TLC's are kept as two 16-bit limbs           *)
(* [neg, hi, lo] (sign and magnitude hi * 2^16 + lo); file contents are    *)
(* sequences of bytes 0 .. 255; strings are sequences of 1-character       *)
(* strings.  None is <<>> and a present value v is <<v>>.                  *)
(***************************************************************************)
EXTENDS Integers, Sequences, FiniteSets, TLC

VARIABLES
    file,       \* the contents of the target file on disk
    orig,       \* the contents of the file when the running process started
    pc,         \* "start" | "parsed" | "exit" | "crcdone"
    argv,       \* the command line as typed (insert still a string)
    opts,       \* the argparse namespace, as do_main reads and assigns it
    stdout,     \* what the process wrote to standard output, as delivered
    rc,         \* the exit status of the process
    opened,     \* the modes in which the process opened the file
    written,    \* <<>> or <<[at, data]>>: the write the process made
    prev,       \* <<>> or <<[insert, position]>>: the patch of the previous process
    runs,       \* how many processes have been started
    chunksize,  \* the chunk size given to crc32
    answer      \* the value crc32 returned

vars == <<file, orig, pc, argv, opts, stdout, rc, opened, written, prev, runs,
          chunksize, answer>>

-----------------------------------------------------------------------------
(* Bounds *)

\* Processes run one after the other on the same file.
MaxRuns == 2
\* The longest file whose checksum is taken with every chunk size.
MaxCrcLen == 4
\* The largest chunk size crc32 is called with, besides the default.
MaxChunk == 3

-----------------------------------------------------------------------------
(* 32-bit arithmetic on 16-bit limbs *)

None == <<>>
Some(x) == <<x>>

\* The bit of weight p (a power of 2) in the exclusive or of a and b.
XorBit(a, b, p) == IF (a \div p) % 2 = (b \div p) % 2 THEN 0 ELSE p

\* The bitwise exclusive or of two 16-bit numbers.
Xor(a, b) ==
    (((XorBit(a, b, 1) + XorBit(a, b, 2)) + (XorBit(a, b, 4) + XorBit(a, b, 8)))
     + ((XorBit(a, b, 16) + XorBit(a, b, 32)) + (XorBit(a, b, 64) + XorBit(a, b, 128))))
    + (((XorBit(a, b, 256) + XorBit(a, b, 512))
        + (XorBit(a, b, 1024) + XorBit(a, b, 2048)))
       + ((XorBit(a, b, 4096) + XorBit(a, b, 8192))
          + (XorBit(a, b, 16384) + XorBit(a, b, 32768))))

U32(h, l) == [hi |-> h, lo |-> l]
Xor32(x, y) == U32(Xor(x.hi, y.hi), Xor(x.lo, y.lo))
Shr1(x) == U32(x.hi \div 2, (x.lo \div 2) + (x.hi % 2) * 32768)
Shr8(x) == U32(x.hi \div 256, (x.lo \div 256) + (x.hi % 256) * 256)

\* The reflected CRC-32 polynomial 0xEDB88320 and the all-ones mask.
Poly == U32(60856, 33568)
Ones == U32(65535, 65535)
Zero32 == U32(0, 0)

\* One round of the bitwise CRC: shift right, and xor the polynomial in when
\* the bit shifted out is 1.
CrcStep(crc) == IF crc.lo % 2 = 1 THEN Xor32(Shr1(crc), Poly) ELSE Shr1(crc)

\* zlib's table: entry b is 8 rounds on the byte b.
crc_table ==
    [b \in 0..255 |->
        CrcStep(CrcStep(CrcStep(CrcStep(
        CrcStep(CrcStep(CrcStep(CrcStep(U32(0, b)))))))))]

\* The 32-bit registers.
Reg == [hi : 0..65535, lo : 0..65535]

\* One byte through the table: crc = table[(crc ^ b) & 0xff] ^ (crc >> 8).
CrcByte[crc \in Reg, b \in 0..255] ==
    Xor32(Shr8(crc), crc_table[Xor(crc.lo % 256, b)])

RECURSIVE CrcFold(_, _, _)
\* The register after the first i bytes of data, started from crc.
CrcFold(crc, data, i) ==
    IF i = 0 THEN crc ELSE CrcByte[CrcFold(crc, data, i - 1), data[i]]

\* zlib.crc32(data, value): the running CRC-32 of data, continued from value.
zlib_crc32(data, value) ==
    Xor32(CrcFold(Xor32(value, Ones), data, Len(data)), Ones)

-----------------------------------------------------------------------------
(* crc32(filename, chunksize) *)

Min(a, b) == IF a < b THEN a ELSE b

\* f.read(n) at position pos: at most n bytes, empty at end of file.
FileRead(content, pos, n) == SubSeq(content, pos + 1, Min(pos + n, Len(content)))

\* The state of the read loop: the file position and the running checksum.
LoopState(content) == [pos : 0..Len(content), checksum : Reg]

\* The loop with every chunk folded from 0 instead of the running checksum.
crc32_nocarry(content, n) ==
    LET loop[st \in LoopState(content)] ==
            LET chunk == FileRead(content, st.pos, n)
            IN  IF chunk = <<>> THEN st.checksum
                ELSE loop[[pos |-> st.pos + Len(chunk),
                           checksum |-> zlib_crc32(chunk, Zero32)]]
    IN  loop[[pos |-> 0, checksum |-> Zero32]]

\* checksum = 0
\* while (chunk := f.read(chunksize)): checksum = zlib.crc32(chunk, checksum)
\* return checksum
crc32(content, n) ==
    LET loop[st \in LoopState(content)] ==
            LET chunk == FileRead(content, st.pos, n)
            IN  IF chunk = <<>> THEN st.checksum
                ELSE loop[[pos |-> st.pos + Len(chunk),
                           checksum |-> zlib_crc32(chunk, st.checksum)]]
    IN  loop[[pos |-> 0, checksum |-> Zero32]]

DefaultChunk == 65536

-----------------------------------------------------------------------------
(* Python integers, int(s, 16) and hex_string_32bit *)

PyInt(n, h, l) == [neg |-> n, hi |-> h, lo |-> l]

\* bool(x) of an optional integer: None and 0 are false.
TruthyInt(x) == x # None /\ x[1] # 0
TruthyPy(x) == x # None /\ (x[1].hi # 0 \/ x[1].lo # 0)

\* 0 <= v <= 2^32 - 1
IsU32(v) == ~v.neg /\ v.hi < 65536

Le32(a, b) == a.hi < b.hi \/ (a.hi = b.hi /\ a.lo <= b.lo)

LowerDigits == <<"0", "1", "2", "3", "4", "5", "6", "7", "8", "9",
                 "a", "b", "c", "d", "e", "f">>
UpperDigits == <<"0", "1", "2", "3", "4", "5", "6", "7", "8", "9",
                 "A", "B", "C", "D", "E", "F">>

IsHexDigit(c) == \E i \in 1..16 : LowerDigits[i] = c \/ UpperDigits[i] = c
HexVal(c) == (CHOOSE i \in 1..16 : LowerDigits[i] = c \/ UpperDigits[i] = c) - 1

RECURSIVE LStrip(_)
LStrip(s) == IF s # <<>> /\ Head(s) = " " THEN LStrip(Tail(s)) ELSE s
RECURSIVE RStrip(_)
RStrip(s) ==
    IF s # <<>> /\ s[Len(s)] = " " THEN RStrip(SubSeq(s, 1, Len(s) - 1)) ELSE s

\* The digit string of int(): digits, with single underscores between them.
DigitsOk(d) ==
    /\ d # <<>>
    /\ IsHexDigit(d[1])
    /\ IsHexDigit(d[Len(d)])
    /\ \A i \in 1..Len(d) : IsHexDigit(d[i]) \/ d[i] = "_"
    /\ \A i \in 1..(Len(d) - 1) : ~(d[i] = "_" /\ d[i + 1] = "_")

RECURSIVE DigitsValue(_, _, _)
\* The magnitude of a digit string, most significant digit first.
DigitsValue(d, i, acc) ==
    IF i > Len(d) THEN acc
    ELSE IF d[i] = "_" THEN DigitsValue(d, i + 1, acc)
    ELSE LET low == acc.lo * 16 + HexVal(d[i])
         IN  DigitsValue(d, i + 1,
                         PyInt(FALSE, acc.hi * 16 + (low \div 65536), low % 65536))

\* int(s, 16): surrounding blanks, an optional sign, an optional 0x prefix
\* (which one underscore may follow), then the digits.  ok is FALSE where
\* Python raises ValueError.
int16(s) ==
    LET t == RStrip(LStrip(s))
        signed == t # <<>> /\ t[1] \in {"+", "-"}
        u == IF signed THEN Tail(t) ELSE t
        prefixed == Len(u) >= 2 /\ u[1] = "0" /\ u[2] \in {"x", "X"}
        w == IF prefixed THEN SubSeq(u, 3, Len(u)) ELSE u
        d == IF prefixed /\ w # <<>> /\ w[1] = "_" THEN Tail(w) ELSE w
    IN  IF ~DigitsOk(d) THEN [ok |-> FALSE, val |-> PyInt(FALSE, 0, 0)]
        ELSE LET m == DigitsValue(d, 1, PyInt(FALSE, 0, 0))
             IN  [ok |-> TRUE,
                  val |-> PyInt(signed /\ t[1] = "-" /\ (m.hi # 0 \/ m.lo # 0),
                                m.hi, m.lo)]

\* hex_string_32bit(s): ValueError for more than 8 characters, else int(s, 16).
hex_string_32bit(s) ==
    IF Len(s) > 8 THEN [ok |-> FALSE, val |-> PyInt(FALSE, 0, 0)] ELSE int16(s)

\* to_bytes with the least significant byte first.
to_bytes_little(x) ==
    IF x.neg \/ x.hi >= 65536 THEN [ok |-> FALSE, data |-> <<>>]
    ELSE [ok |-> TRUE,
          data |-> <<x.lo % 256, x.lo \div 256, x.hi % 256, x.hi \div 256>>]

\* x.to_bytes(4, signed=False), big-endian: ok is FALSE where Python raises
\* OverflowError (a negative x, or one that needs more than 4 bytes).
to_bytes(x) ==
    IF x.neg \/ x.hi >= 65536 THEN [ok |-> FALSE, data |-> <<>>]
    ELSE [ok |-> TRUE,
          data |-> <<x.hi \div 256, x.hi % 256, x.lo \div 256, x.lo % 256>>]

\* f"{x:08x}" of a non-negative x below 2^32.
Hex8(x) ==
    << LowerDigits[(x.hi \div 4096) + 1], LowerDigits[((x.hi \div 256) % 16) + 1],
       LowerDigits[((x.hi \div 16) % 16) + 1], LowerDigits[(x.hi % 16) + 1],
       LowerDigits[(x.lo \div 4096) + 1], LowerDigits[((x.lo \div 256) % 16) + 1],
       LowerDigits[((x.lo \div 16) % 16) + 1], LowerDigits[(x.lo % 16) + 1] >>

-----------------------------------------------------------------------------
(* Files *)

Zeros(n) == [i \in 1..n |-> 0]

\* A seek that counts every position from the start of the file.
SeekFromStart(content, position) ==
    IF position >= 0 THEN [ok |-> TRUE, at |-> position] ELSE [ok |-> FALSE, at |-> 0]

\* The file position after f.seek(position, SEEK_SET) for position >= 0 and
\* f.seek(position, SEEK_END) for position < 0; ok is FALSE where the seek
\* raises OSError (a position before the start of the file).
Seek(content, position) ==
    IF position >= 0 THEN [ok |-> TRUE, at |-> position]
    ELSE IF Len(content) + position < 0 THEN [ok |-> FALSE, at |-> 0]
    ELSE [ok |-> TRUE, at |-> Len(content) + position]

\* A write that always lands at the end of the file, as in append mode.
WriteAppend(content, at, data) == content \o data

\* f.write(data) at position at of a file opened "r+b": the bytes under the
\* data are overwritten, the file grows where the data passes its end, and a
\* gap left by a seek past the end reads as zero bytes.
WriteAt(content, at, data) ==
    LET n == IF at + Len(data) > Len(content) THEN at + Len(data) ELSE Len(content)
    IN  [i \in 1..n |->
            IF i > at /\ i <= at + Len(data) THEN data[i - at]
            ELSE IF i <= Len(content) THEN content[i]
            ELSE 0]

-----------------------------------------------------------------------------
(* Output *)

FileName == "test-zero.bin"

Text(t) == [kind |-> "text", text |-> t, bytes |-> <<>>]
Raw(b) == [kind |-> "bytes", text |-> <<>>, bytes |-> b]

\* print(f"{v:08x}")
TerseLine(v) == Text(Hex8(v) \o <<"\n">>)
\* print(f"CRC32 of {opts.filename} is: {answer:08x}")
VerboseCheckLine(v) == Text(<<"CRC32 of ", FileName, " is: ">> \o Hex8(v) \o <<"\n">>)
\* print(f"Wrote target selected CRC32 of {opts.insert:08x} to ... at position: ...")
VerbosePatchLine(v, position) ==
    Text(<<"Wrote target selected CRC32 of ">> \o Hex8(v)
         \o <<" to ", FileName, " at position: ", ToString(position), "\n">>)

\* sys.stdout.buffer.write(answer.to_bytes(4))
RawAnswer(v) == Raw(to_bytes(PyInt(FALSE, v.hi, v.lo)).data)

-----------------------------------------------------------------------------
(* do_main *)

\* What one run of do_main leaves behind.
Outcome(o, content, out, status, modes, w) ==
    [opts |-> o, file |-> content, stdout |-> out, rc |-> status,
     opened |-> modes, written |-> w]

\* The checksum always printed as a hex line, whatever --raw says.
CheckBranchHexOnly(o, content, textfirst) ==
    LET crc == crc32(content, DefaultChunk)
        line == IF o.verbose THEN <<VerboseCheckLine(crc)>> ELSE <<>>
    IN  Outcome(o, content, line \o <<TerseLine(crc)>>, 0, {"rb"}, None)

\* Lines 63-71: the checksum is printed.  With both --verbose and --raw the
\* line goes through the text layer of stdout and the 4 bytes straight to its
\* buffer: textfirst says which reaches the reader first (a terminal flushes
\* the line at once, a pipe at exit).
CheckBranch(o, content, textfirst) ==
    LET crc == crc32(content, DefaultChunk)
        line == IF o.verbose THEN <<VerboseCheckLine(crc)>> ELSE <<>>
        result == IF o.binary THEN <<RawAnswer(crc)>> ELSE <<TerseLine(crc)>>
    IN  Outcome(o, content,
                IF o.binary /\ ~textfirst THEN result \o line ELSE line \o result,
                0, {"rb"}, None)

\* Sample points of the 32-bit range, both ends included.
Sample32 == {PyInt(FALSE, 0, 0), PyInt(FALSE, 0, 1), PyInt(FALSE, 1, 0),
             PyInt(FALSE, 65535, 65535)}

\* random.randint(a, b) with a lower bound of 0.
randint_from_zero(a, b) == {v \in Sample32 : Le32(v, b)}

\* random.randint(a, b): any integer a <= v <= b.
randint(a, b) == {v \in Sample32 : Le32(a, v) /\ Le32(v, b)}

\* Lines 73-76: --insert-random-at, when truthy, sets position and insert.
RandomStep(o, r) ==
    IF TruthyInt(o.index_random)
    THEN [o EXCEPT !.position = o.index_random, !.insert = Some(r)]
    ELSE o

\* The values line 76 may draw; one dummy where it is not reached.
RandomDraws(o) ==
    IF ~o.check /\ TruthyInt(o.index_random)
    THEN randint(PyInt(FALSE, 0, 1), PyInt(FALSE, 65535, 65535))
    ELSE {PyInt(FALSE, 0, 0)}

\* Lines 79-89: open "r+b", seek, write the 4 bytes, print.  An exception
\* (OSError from the seek, OverflowError from to_bytes) ends the process with
\* status 1, the file closed and as it was.
PatchBranch(o, content) ==
    LET position == o.position[1]
        insert == o.insert[1]
        sk == Seek(content, position)
        tb == to_bytes(insert)
    IN  IF ~sk.ok \/ ~tb.ok
        THEN Outcome(o, content, <<>>, 1, {"r+b"}, None)
        ELSE Outcome(o, WriteAt(content, sk.at, tb.data),
                     (IF o.verbose THEN <<VerbosePatchLine(insert, position)>>
                      ELSE <<>>) \o <<TerseLine(insert)>>,
                     0, {"r+b"}, Some([at |-> sk.at, data |-> tb.data]))

\* Lines 73-89, reached when --check is not set.
PatchPart(o, content, r) ==
    LET o2 == RandomStep(o, r)
    IN  IF TruthyPy(o2.insert) /\ TruthyInt(o2.position)
        THEN PatchBranch(o2, content)
        ELSE Outcome(o2, content, <<>>, 0, {}, None)

\* do_main whose check branch does not return.
do_main_fallthrough(o, content, r, textfirst) ==
    IF o.check
    THEN LET c == CheckBranch(o, content, textfirst)
             q == PatchPart(o, content, r)
         IN  Outcome(q.opts, q.file, c.stdout \o q.stdout, q.rc,
                     c.opened \cup q.opened, q.written)
    ELSE PatchPart(o, content, r)

do_main(o, content, r, textfirst) ==
    IF o.check THEN CheckBranch(o, content, textfirst)
    ELSE PatchPart(o, content, r)

-----------------------------------------------------------------------------
(* The command line *)

\* The length of the file of the docstring's example (dd bs=16 count=1).
ExampleLen == 16
\* The length of the second, short file.
ShortLen == 5

InitFiles == {<<>>, [i \in 1..ShortLen |-> i], Zeros(ExampleLen)}

InsertArgs == {<<"c", "a", "f", "e", "c", "a", "f", "e">>,
               <<"0">>,
               <<"-", "1">>,
               <<"c", "a", "f", "e", "c", "a", "f", "e", "0">>,
               <<"x", "y", "z">>}

RandomAtArgs == {0, -6}

PositionArgs == {0, -8, -2, 3}

Opt(S) == {None} \cup {Some(x) : x \in S}

Argvs == [check : BOOLEAN, binary : BOOLEAN, verbose : BOOLEAN,
          index_random : Opt(RandomAtArgs), insert : Opt(InsertArgs),
          position : Opt(PositionArgs)]

\* The namespace of a command line with no options.
NoOpts == [check |-> FALSE, binary |-> FALSE, verbose |-> FALSE,
           index_random |-> None, insert |-> None, position |-> None]

-----------------------------------------------------------------------------
(* The processes *)

Init ==
    /\ file \in InitFiles
    /\ orig = file
    /\ pc = "start"
    /\ argv = NoOpts
    /\ opts = NoOpts
    /\ stdout = <<>>
    /\ rc = 0
    /\ opened = {}
    /\ written = None
    /\ prev = None
    /\ runs = 1
    /\ chunksize = DefaultChunk
    /\ answer = None

\* p.parse_args(): --insert goes through hex_string_32bit, whose ValueError
\* argparse turns into a usage error and exit status 2 before do_main runs.
ParseArgs(a) ==
    /\ pc = "start"
    /\ argv' = a
    /\ LET h == IF a.insert = None THEN [ok |-> TRUE, val |-> PyInt(FALSE, 0, 0)]
                ELSE hex_string_32bit(a.insert[1])
       IN  IF h.ok
           THEN /\ opts' = [a EXCEPT !.insert =
                               IF a.insert = None THEN None ELSE Some(h.val)]
                /\ pc' = "parsed"
                /\ rc' = rc
           ELSE /\ opts' = opts
                /\ pc' = "exit"
                /\ rc' = 2
    /\ UNCHANGED <<file, orig, stdout, opened, written, prev, runs, chunksize, answer>>

\* do_main(opts), and the end of the process.
DoMain ==
    /\ pc = "parsed"
    /\ \E r \in RandomDraws(opts) :
       \E textfirst \in (IF opts.check /\ opts.verbose /\ opts.binary
                         THEN BOOLEAN ELSE {TRUE}) :
          LET res == do_main(opts, file, r, textfirst)
          IN  /\ opts' = res.opts
              /\ file' = res.file
              /\ stdout' = res.stdout
              /\ rc' = res.rc
              /\ opened' = res.opened
              /\ written' = res.written
    /\ pc' = "exit"
    /\ UNCHANGED <<orig, argv, prev, runs, chunksize, answer>>

\* The script is run again on the file the last process left.
NextProcess ==
    /\ pc = "exit"
    /\ runs < MaxRuns
    /\ pc' = "start"
    /\ runs' = runs + 1
    /\ orig' = file
    /\ prev' = IF "r+b" \in opened
               THEN Some([insert |-> opts.insert[1], position |-> opts.position[1]])
               ELSE None
    /\ argv' = NoOpts
    /\ opts' = NoOpts
    /\ stdout' = <<>>
    /\ rc' = 0
    /\ opened' = {}
    /\ written' = None
    /\ UNCHANGED <<file, chunksize, answer>>

Next == (\E a \in Argvs : ParseArgs(a)) \/ DoMain \/ NextProcess

Spec == Init /\ [][Next]_vars

-----------------------------------------------------------------------------
(* crc32 called on its own, with every chunk size *)

CrcBytes == {0, 1, 255}

CrcFiles == UNION {[1..n -> CrcBytes] : n \in 0..MaxCrcLen} \cup InitFiles

InitCrc ==
    /\ file \in CrcFiles
    /\ orig = file
    /\ pc = "start"
    /\ argv = NoOpts
    /\ opts = NoOpts
    /\ stdout = <<>>
    /\ rc = 0
    /\ opened = {}
    /\ written = None
    /\ prev = None
    /\ runs = 1
    /\ chunksize = DefaultChunk
    /\ answer = None

\* answer = crc32(filename, n)
CallCrc32(n) ==
    /\ pc = "start"
    /\ chunksize' = n
    /\ answer' = Some(crc32(file, n))
    /\ opened' = {"rb"}
    /\ pc' = "crcdone"
    /\ UNCHANGED <<file, orig, argv, opts, stdout, rc, written, prev, runs>>

NextCrc == \E n \in (1..MaxChunk) \cup {DefaultChunk} : CallCrc32(n)

SpecCrc == InitCrc /\ [][NextCrc]_vars

-----------------------------------------------------------------------------
(* Properties *)

\* The big-endian encoding of a 32-bit value: most significant byte first.
BigEndian(v) == <<v.hi \div 256, v.hi % 256, v.lo \div 256, v.lo % 256>>

\* The 4 bytes read at offset p of content, p >= 0 counted from the start
\* and p < 0 from the end.
ReadBack(content, p) ==
    LET sk == Seek(content, p)
    IN  IF sk.ok THEN FileRead(content, sk.at, 4) ELSE <<>>

\* The process ran do_main to its end (argparse did not reject the line).
Ran == pc = "exit" /\ rc # 2
\* The process wrote its 4 bytes.
Patched == Ran /\ written # None
\* The checksum of the file the process started on, as check mode prints it.
CheckResult ==
    LET crc == zlib_crc32(orig, Zero32)
    IN  IF opts.binary THEN Raw(BigEndian(crc)) ELSE Text(Hex8(crc) \o <<"\n">>)
CafeCafe == PyInt(FALSE, 51966, 51966)

\* C1: crc32 over any file and any chunk size >= 1 returns the CRC-32 of the
\* whole content in one pass; the empty file gives 0, and the values agree
\* with the reference CRC-32 of known inputs.
C1_ChunkedCrcIsWholeCrc ==
    pc = "crcdone" =>
        /\ answer = Some(zlib_crc32(file, Zero32))
        /\ (file = <<>> => answer = Some(Zero32))
        /\ (file = <<0>> => answer = Some(U32(53762, 61325)))
        /\ (file = <<255>> => answer = Some(U32(65280, 0)))
        /\ (file = <<1, 255>> => answer = Some(U32(30144, 52275)))
        /\ (file = Zeros(16) => answer = Some(U32(60603, 19285)))

\* C1 witness: a 4-byte file read in chunks of 3 and 1 bytes.
C1_Witness ==
    /\ pc = "crcdone"
    /\ file = <<1, 255, 0, 1>>
    /\ chunksize = 3
    /\ answer = Some(zlib_crc32(file, Zero32))

\* C2 as stated: after any successful patch of V at P, the 4 bytes read
\* back at P (from the start for P >= 0, from the end for P < 0) are the
\* big-endian encoding of V.
C2_RoundTripEveryOffset ==
    Patched => ReadBack(file, opts.position[1]) = BigEndian(opts.insert[1])

\* C2 amended: the round trip holds for P >= 0 and for P <= -4, where the
\* 4 bytes written end at or before the old end of the file.
C2_RoundTrip ==
    (Patched /\ (opts.position[1] >= 0 \/ opts.position[1] <= -4)) =>
        ReadBack(file, opts.position[1]) = BigEndian(opts.insert[1])

\* C2 witness: cafecafe written 8 bytes before the end and read back there.
C2_Witness ==
    /\ Patched
    /\ opts.position = Some(-8)
    /\ opts.insert = Some(CafeCafe)
    /\ ReadBack(file, -8) = <<202, 254, 202, 254>>

\* C3: a patch at a negative offset with L + offset >= 0 writes the 4
\* big-endian bytes at index L + offset, L the length before the patch; with
\* the window inside the file, the length and all other bytes are unchanged;
\* 16 zero bytes patched with cafecafe at -8 become 00*8 ca fe ca fe 00*4.
C3_NegativeOffset ==
    /\ (/\ Ran
        /\ "r+b" \in opened
        /\ opts.position[1] < 0
        /\ Len(orig) + opts.position[1] >= 0
        /\ IsU32(opts.insert[1]))
       => LET at == Len(orig) + opts.position[1]
          IN  /\ written = Some([at |-> at, data |-> BigEndian(opts.insert[1])])
              /\ SubSeq(file, at + 1, at + 4) = BigEndian(opts.insert[1])
              /\ at + 4 <= Len(orig) =>
                    /\ Len(file) = Len(orig)
                    /\ \A i \in 1..Len(orig) :
                          (i <= at \/ i > at + 4) => file[i] = orig[i]
    /\ (/\ Ran
        /\ orig = Zeros(16)
        /\ ~argv.check
        /\ ~TruthyInt(argv.index_random)
        /\ argv.insert = Some(<<"c", "a", "f", "e", "c", "a", "f", "e">>)
        /\ argv.position = Some(-8))
       => file = <<0, 0, 0, 0, 0, 0, 0, 0, 202, 254, 202, 254, 0, 0, 0, 0>>

\* C3 witness: the docstring's example has run.
C3_Witness ==
    /\ Patched
    /\ orig = Zeros(16)
    /\ argv.insert = Some(<<"c", "a", "f", "e", "c", "a", "f", "e">>)
    /\ opts.position = Some(-8)
    /\ file = <<0, 0, 0, 0, 0, 0, 0, 0, 202, 254, 202, 254, 0, 0, 0, 0>>

\* The process applied the patch its predecessor applied: same value, same
\* offset.
SamePatchAgain ==
    /\ Ran
    /\ "r+b" \in opened
    /\ prev = Some([insert |-> opts.insert[1], position |-> opts.position[1]])

\* C4 as stated: the same patch applied twice in a row leaves the file as
\* the first application left it, for every offset.
C4_IdempotentEveryOffset == SamePatchAgain => file = orig

\* C4 amended: applying the same patch twice leaves the file as the first
\* application left it, length included, for P >= 0 and for P <= -4.
C4_Idempotent ==
    (SamePatchAgain /\ (opts.position[1] >= 0 \/ opts.position[1] <= -4)) =>
        file = orig

\* C4 witness: a second identical patch at offset 3 has written its bytes.
C4_Witness ==
    /\ SamePatchAgain
    /\ written # None
    /\ opts.position = Some(3)
    /\ file = orig

\* C5: with --check set, whatever patch options are present, do_main only
\* prints the checksum: the file is opened for reading only, nothing is
\* written, and its contents are unchanged at exit.
C5_CheckPrecedence ==
    (pc = "exit" /\ opts.check) =>
        /\ file = orig
        /\ opened = {"rb"}
        /\ written = None
        /\ rc = 0
        /\ \E i \in 1..Len(stdout) : stdout[i] = CheckResult

\* C5 witness: check mode ran with all three patch options present.
C5_Witness ==
    /\ pc = "exit"
    /\ opts.check
    /\ TruthyInt(opts.index_random)
    /\ TruthyPy(opts.insert)
    /\ TruthyInt(opts.position)
    /\ stdout # <<>>

\* C6: without --check and --insert-random-at, when both --insert and
\* --position are given, the patcher is invoked with that value and that
\* offset, for every 32-bit value and every offset, 0 included.
C6_ExplicitInsert ==
    (/\ Ran
     /\ ~opts.check
     /\ argv.index_random = None
     /\ opts.insert # None
     /\ opts.position # None
     /\ IsU32(opts.insert[1]))
    => /\ "r+b" \in opened
       /\ Seek(orig, opts.position[1]).ok =>
             written = Some([at |-> Seek(orig, opts.position[1]).at,
                             data |-> BigEndian(opts.insert[1])])

\* C7: without --check, --insert-random-at N makes do_main draw a random
\* value and invoke the patcher with it at offset N, for every N, 0 included,
\* whatever --insert and --position say.
C7_RandomInsert ==
    (Ran /\ ~opts.check /\ argv.index_random # None)
    => /\ opts.position = argv.index_random
       /\ "r+b" \in opened
       /\ opts.insert # None
       /\ Seek(orig, argv.index_random[1]).ok =>
             /\ written # None
             /\ written[1].at = Seek(orig, argv.index_random[1]).at

\* C8: on the random-insert path the value is in 1 .. 2^32 - 1, and the 4
\* bytes written are its big-endian encoding, never all zero.
C8_RandomNonZero ==
    (Ran /\ ~opts.check /\ TruthyInt(opts.index_random))
    => /\ opts.insert # None
       /\ IsU32(opts.insert[1])
       /\ opts.insert[1] # PyInt(FALSE, 0, 0)
       /\ opts.position = opts.index_random
       /\ Seek(orig, opts.position[1]).ok => written # None
       /\ written # None =>
             /\ written[1].data = BigEndian(opts.insert[1])
             /\ Len(written[1].data) = 4
             /\ written[1].data # <<0, 0, 0, 0>>

\* C8 witness: the value 0x00010000, whose two low bytes are zero, was drawn
\* and written.
C8_Witness ==
    /\ Patched
    /\ TruthyInt(opts.index_random)
    /\ opts.insert = Some(PyInt(FALSE, 1, 0))
    /\ written[1].data = <<0, 1, 0, 0>>

\* An --insert argument that is too long, is not hex, or does not denote a
\* value in 0 .. 2^32 - 1.
InvalidInsert(s) ==
    \/ Len(s) > 8
    \/ ~int16(s).ok
    \/ ~IsU32(int16(s).val)

\* C9: every invalid --insert argument is rejected while the arguments are
\* parsed, so the file is never opened nor modified (stated here for the
\* command lines without --check and --insert-random-at, where --insert is
\* the value to write); every value that reaches the write step is an
\* unsigned integer that fits in 4 bytes.
C9_ValidatedBeforeIO ==
    /\ (/\ pc = "exit"
        /\ ~argv.check
        /\ argv.index_random = None
        /\ argv.insert # None
        /\ InvalidInsert(argv.insert[1]))
       => (opened = {} /\ file = orig)
    /\ (Ran /\ "r+b" \in opened) => IsU32(opts.insert[1])

\* C10 as stated: in check mode, for every --verbose and --raw, standard
\* output carries only the result: the 8-hex-digit line or the 4 raw bytes.
C10_StdoutOnlyResult == (pc = "exit" /\ opts.check) => stdout = <<CheckResult>>

\* The line --verbose adds in check mode.
CheckVerboseLine ==
    Text(<<"CRC32 of ", FileName, " is: ">> \o Hex8(zlib_crc32(orig, Zero32))
         \o <<"\n">>)

\* C10 amended: in check mode without --verbose standard output carries
\* exactly the result; with --verbose it carries the result and, in the same
\* stream, the human-readable line, which precedes the hex line.
C10_StdoutResult ==
    (pc = "exit" /\ opts.check) =>
        /\ ~opts.verbose => stdout = <<CheckResult>>
        /\ opts.verbose =>
              /\ stdout \in {<<CheckVerboseLine, CheckResult>>,
                             <<CheckResult, CheckVerboseLine>>}
              /\ ~opts.binary => stdout = <<CheckVerboseLine, CheckResult>>

\* C10 witness: --check --verbose --raw, the 4 bytes delivered before the line.
C10_Witness ==
    /\ pc = "exit"
    /\ opts.check /\ opts.verbose /\ opts.binary
    /\ stdout = <<CheckResult, CheckVerboseLine>>
    /\ CheckResult.bytes = BigEndian(zlib_crc32(orig, Zero32))

====
